---- MODULE Spec2Model ----
(***************************************************************************)
(* State-machine model of TinyConfig (src/src/TinyConfig.cpp,              *)
(* src/include/TinyConfig.h): a key-value store kept as one JSON object in *)
(* the file /config.json on LittleFS.                                      *)
(*                                                                         *)
(* The file is modelled as a sequence of characters.  serializeJson and    *)
(* deserializeJson are modelled as a printer and a parser over that text,  *)
(* so that what a get reads back is what the parser makes of what the      *)
(* printer wrote.  Environment outcomes are the ones the code branches on: *)
(* the mount result (cpp:23), a failing open (cpp:66,129,153), a parse     *)
(* error (cpp:135, decided by the file's content), a zero-byte write       *)
(* (cpp:157) and a zero-byte serialization to a string (cpp:337).          *)
(* Writes the code does not check (cpp:70) are taken to complete, and the  *)
(* capacity of a DynamicJsonDocument is taken to be sufficient.            *)
(*                                                                         *)
(* Numbers: an int is a natural number; a float is a natural number of     *)
(* hundredths.  The printer writes a float with one decimal place,         *)
(* rounded, without trailing zeros, as ArduinoJson prints a bounded number *)
(* of decimal places; a number without a decimal point reads back as an    *)
(* integer.                                                                *)
(***************************************************************************)
EXTENDS Integers, Sequences, FiniteSets, TLC

\* ------------------------------------------------------------------------
\* Bounds of the model
\* ------------------------------------------------------------------------
MaxStrLen == 1
MaxKeyList == 2

\* ------------------------------------------------------------------------
\* Program constants
\* ------------------------------------------------------------------------
MinFileSize == 9
MaxAllowedFileSize == 4096
DefaultMaxFileSize == 2048

\* TinyConfigError (TinyConfig.h:10-22)
TinyConfigError ==
    {"None", "FSInitFailed", "FSNotRunning", "FSAlreadyRunning",
     "FileOpenFailed", "FileWriteFailed", "FileCreateFailed",
     "JsonParseFailed", "JsonSerializeFailed", "FileSizeTooSmall",
     "FileSizeTooLarge"}

\* ------------------------------------------------------------------------
\* JSON values and documents
\* ------------------------------------------------------------------------
\* A value is <<"int", n>>, <<"float", hundredths>> or <<"str", chars>>.
\* A document is a sequence of <<key, value>> members, in insertion order.
QUOTE == "\""
BSLASH == "\\"

Digits == <<"0", "1", "2", "3", "4", "5", "6", "7", "8", "9">>

DigitChar(d) == Digits[d + 1]

IsDigit(c) == \E d \in 0..9 : Digits[d + 1] = c

DigitVal(c) == CHOOSE d \in 0..9 : Digits[d + 1] = c

IntV(n) == <<"int", n>>
FloatV(h) == <<"float", h>>
StrV(s) == <<"str", s>>
NullV == <<"null", 0>>

RECURSIVE KeyIndex(_, _, _)
KeyIndex(doc, key, i) ==
    IF i > Len(doc) THEN 0
    ELSE IF doc[i][1] = key THEN i
    ELSE KeyIndex(doc, key, i + 1)

containsKey(doc, key) == KeyIndex(doc, key, 1) # 0

\* doc[key] read: the member's value, or null when there is no such member
DocGet(doc, key) ==
    LET At(k) == IF k = 0 THEN NullV ELSE doc[k][2]
    IN  At(KeyIndex(doc, key, 1))

\* doc[key] = value that adds a member even when the key has one
DocSet_AlwaysAppend(doc, key, value) == Append(doc, <<key, value>>)

\* doc[key] = value (cpp:190): replace the member in place, or append it
DocSet(doc, key, value) ==
    LET At(k) == IF k = 0 THEN Append(doc, <<key, value>>)
                 ELSE [doc EXCEPT ![k] = <<key, value>>]
    IN  At(KeyIndex(doc, key, 1))

\* doc.remove(key) (cpp:368, cpp:404)
DocRemove(doc, key) ==
    LET At(k) ==
            IF k = 0 THEN doc
            ELSE [i \in 1..(Len(doc) - 1) |->
                     IF i < k THEN doc[i] ELSE doc[i + 1]]
    IN  At(KeyIndex(doc, key, 1))

DocKeys(doc) == {doc[i][1] : i \in 1..Len(doc)}

\* ------------------------------------------------------------------------
\* serializeJson: document -> text
\* ------------------------------------------------------------------------
RECURSIVE SerInt(_)
SerInt(n) ==
    IF n < 10 THEN <<DigitChar(n)>>
    ELSE SerInt(n \div 10) \o <<DigitChar(n % 10)>>

\* a float, given in hundredths, printed with one rounded decimal place
SerFloat(h) ==
    LET Tenths(t) ==
            SerInt(t \div 10)
            \o (IF t % 10 = 0 THEN <<>> ELSE <<".", DigitChar(t % 10)>>)
    IN  Tenths((h + 5) \div 10)

RECURSIVE Escape(_)
Escape(s) ==
    IF s = <<>> THEN <<>>
    ELSE (IF Head(s) \in {QUOTE, BSLASH} THEN <<BSLASH, Head(s)>>
          ELSE <<Head(s)>>) \o Escape(Tail(s))

SerString(s) == <<QUOTE>> \o Escape(s) \o <<QUOTE>>

SerValue(v) ==
    CASE v[1] = "int" -> SerInt(v[2])
      [] v[1] = "float" -> SerFloat(v[2])
      [] v[1] = "str" -> SerString(v[2])
      [] OTHER -> <<"n", "u", "l", "l">>

RECURSIVE SerMembers(_)
SerMembers(doc) ==
    IF doc = <<>> THEN <<>>
    ELSE SerString(doc[1][1]) \o <<":">> \o SerValue(doc[1][2])
         \o (IF Len(doc) > 1 THEN <<",">> ELSE <<>>)
         \o SerMembers(Tail(doc))

serializeJson(doc) == <<"{">> \o SerMembers(doc) \o <<"}">>

\* ------------------------------------------------------------------------
\* deserializeJson: text -> document, or a parse error
\* ------------------------------------------------------------------------
ParseFail == [ok |-> FALSE, val |-> NullV, next |-> 0]

\* the characters of a string literal, from position i just after the
\* opening quote up to the closing quote
RECURSIVE ParseString(_, _, _)
ParseString(s, i, acc) ==
    IF i > Len(s) THEN ParseFail
    ELSE IF s[i] = QUOTE THEN [ok |-> TRUE, val |-> acc, next |-> i + 1]
    ELSE IF s[i] = BSLASH
         THEN IF i + 1 > Len(s) THEN ParseFail
              ELSE ParseString(s, i + 2, Append(acc, s[i + 1]))
    ELSE ParseString(s, i + 1, Append(acc, s[i]))

\* a run of digits starting at i: its value, its length, the next position
RECURSIVE ParseDigits(_, _, _, _)
ParseDigits(s, i, acc, n) ==
    IF i <= Len(s) /\ IsDigit(s[i])
    THEN ParseDigits(s, i + 1, acc * 10 + DigitVal(s[i]), n + 1)
    ELSE [val |-> acc, count |-> n, next |-> i]

\* the hundredths that a fraction of count digits stands for
RECURSIVE Hundredths(_, _)
Hundredths(val, count) ==
    IF count = 1 THEN val * 10
    ELSE IF count = 2 THEN val
    ELSE Hundredths(val \div 10, count - 1)

\* a number: digits, optionally a point and more digits.  Without a point
\* the value is an integer, with a point it is a float (in hundredths).
ParseNumber(s, i) ==
    LET Fraction(ip, fp) ==
            IF fp.count = 0 THEN ParseFail
            ELSE [ok |-> TRUE,
                  val |-> FloatV(ip.val * 100
                                 + Hundredths(fp.val, fp.count)),
                  next |-> fp.next]
        Integral(ip) ==
            IF ip.count = 0 THEN ParseFail
            ELSE IF ip.next <= Len(s) /\ s[ip.next] = "."
            THEN Fraction(ip, ParseDigits(s, ip.next + 1, 0, 0))
            ELSE [ok |-> TRUE, val |-> IntV(ip.val), next |-> ip.next]
    IN  Integral(ParseDigits(s, i, 0, 0))

ParseValue(s, i) ==
    LET Quoted(r) == IF r.ok THEN [r EXCEPT !.val = StrV(r.val)] ELSE ParseFail
    IN  IF i > Len(s) THEN ParseFail
        ELSE IF s[i] = QUOTE THEN Quoted(ParseString(s, i + 1, <<>>))
        ELSE ParseNumber(s, i)

\* members of an object from position i (at a key's opening quote) up to
\* the closing brace
RECURSIVE ParseMembers(_, _, _)
ParseMembers(s, i, doc) ==
    LET Failed == [ok |-> FALSE, doc |-> <<>>]
        AfterValue(v, member) ==
            IF ~v.ok \/ v.next > Len(s) THEN Failed
            ELSE IF s[v.next] = "}" THEN [ok |-> TRUE, doc |-> member]
            ELSE IF s[v.next] = "," THEN ParseMembers(s, v.next + 1, member)
            ELSE Failed
        Member(k, v) ==
            AfterValue(v, IF v.ok THEN DocSet(doc, k.val, v.val) ELSE doc)
        AfterKey(k) ==
            IF ~k.ok \/ k.next > Len(s) \/ s[k.next] # ":" THEN Failed
            ELSE Member(k, ParseValue(s, k.next + 1))
    IN  IF i > Len(s) \/ s[i] # QUOTE THEN Failed
        ELSE AfterKey(ParseString(s, i + 1, <<>>))

\* an empty input and anything that is not an object of the above shape
\* is an error; on an error the document is empty
deserializeJson(s) ==
    IF Len(s) < 2 \/ s[1] # "{" THEN [ok |-> FALSE, doc |-> <<>>]
    ELSE IF s[2] = "}" THEN [ok |-> TRUE, doc |-> <<>>]
    ELSE ParseMembers(s, 2, <<>>)

\* ------------------------------------------------------------------------
\* doc[key] | fallback: the value when it has the requested type, else the
\* fallback (cpp:252, cpp:273, cpp:294)
\* ------------------------------------------------------------------------
VariantOrInt(doc, key, fallback) ==
    LET Typed(v) == IF v[1] = "int" THEN v ELSE fallback
    IN  Typed(DocGet(doc, key))

\* an integer converts to a float
VariantOrFloat(doc, key, fallback) ==
    LET Typed(v) ==
            IF v[1] = "float" THEN v
            ELSE IF v[1] = "int" THEN FloatV(v[2] * 100)
            ELSE fallback
    IN  Typed(DocGet(doc, key))

\* doc[key] | fallback for a String that turns a number into its text
VariantOrString_AnyType(doc, key, fallback) ==
    LET Typed(v) ==
            IF v[1] = "str" THEN v
            ELSE IF v[1] \in {"int", "float"} THEN StrV(SerValue(v))
            ELSE fallback
    IN  Typed(DocGet(doc, key))

VariantOrString(doc, key, fallback) ==
    LET Typed(v) == IF v[1] = "str" THEN v ELSE fallback
    IN  Typed(DocGet(doc, key))

\* ------------------------------------------------------------------------
\* Inputs
\* ------------------------------------------------------------------------
Keys == {<<"a">>, <<"b">>}

\* n times the character x
RECURSIVE Xs(_)
Xs(n) == IF n = 0 THEN <<>> ELSE Append(Xs(n - 1), "x")

IntValues == {IntV(12)}
FloatValues == {FloatV(125), FloatV(200)}
\* plain strings of up to MaxStrLen characters, and one that needs escaping
StringValues == {StrV(Xs(n)) : n \in 1..MaxStrLen} \cup {StrV(<<QUOTE>>)}
Values == IntValues \cup FloatValues \cup StringValues

IntFallbacks == {IntV(99)}
FloatFallbacks == {FloatV(990)}
StringFallbacks == {StrV(<<"f">>)}

RECURSIVE KeyLists(_)
KeyLists(n) ==
    IF n = 0 THEN {<<>>}
    ELSE LET shorter == KeyLists(n - 1)
         IN  shorter \cup {Append(l, k) : l \in {x \in shorter : Len(x) = n - 1},
                                          k \in Keys}

SizeInputs == {MinFileSize - 1, MinFileSize,
               MaxAllowedFileSize, MaxAllowedFileSize + 1}

\* what the filesystem or the allocator does during one call
Faults == {"none", "openRead", "openWrite", "writeZero"}

\* ------------------------------------------------------------------------
\* State
\* ------------------------------------------------------------------------
VARIABLES
    isInitialized,   \* TinyConfig::isInitialized
    lastError,       \* TinyConfig::lastError
    maxFileSize,     \* TinyConfig::maxFileSize
    mounted,         \* LittleFS is mounted
    fileExists,      \* /config.json exists
    fileData,        \* the characters of /config.json
    last             \* the last call: its arguments, its result and the
                     \* state it started from

vars == <<isInitialized, lastError, maxFileSize, mounted, fileExists,
          fileData, last>>

Snapshot ==
    [init |-> isInitialized, max |-> maxFileSize,
     exists |-> fileExists, data |-> fileData]

\* the record of a call; ok is the boolean result of a bool operation and
\* "the document was loaded" for a get; out is the value a get returns
Call(op, key, val, fb, keys, size, fault, ok, out) ==
    [op |-> op, key |-> key, val |-> val, fb |-> fb, keys |-> keys,
     size |-> size, fault |-> fault, ok |-> ok, out |-> out,
     pre |-> Snapshot]

NoCall == Call("new", <<>>, NullV, NullV, <<>>, 0, "none", TRUE, NullV)

Init ==
    /\ isInitialized = FALSE
    /\ lastError = "None"
    /\ maxFileSize = DefaultMaxFileSize
    /\ mounted = FALSE
    /\ fileExists = FALSE
    /\ fileData = <<>>
    /\ last = NoCall

\* ------------------------------------------------------------------------
\* File access
\* ------------------------------------------------------------------------
\* LittleFS.open(FileString, "r"): needs a mounted filesystem and the file
CanOpenRead(fsMounted, exists, fault) ==
    fsMounted /\ exists /\ fault # "openRead"

\* LittleFS.open(FileString, "w"): needs a mounted filesystem; creates the
\* file and truncates it
CanOpenWrite(fsMounted, fault) ==
    fsMounted /\ fault # "openWrite"

\* resetConfig without the print of cpp:70
resetConfigOn_NoPrint(fsMounted, exists, data, fault) ==
    IF ~CanOpenWrite(fsMounted, fault)
    THEN [ok |-> FALSE, err |-> "FileCreateFailed",
          exists |-> exists, data |-> data]
    ELSE [ok |-> TRUE, err |-> "None", exists |-> TRUE, data |-> <<>>]

\* resetConfig refusing to run on a store that is not initialized
resetConfigOn_InitCheck(fsMounted, exists, data, fault) ==
    IF ~isInitialized
    THEN [ok |-> FALSE, err |-> "FSNotRunning",
          exists |-> exists, data |-> data]
    ELSE IF ~CanOpenWrite(fsMounted, fault)
    THEN [ok |-> FALSE, err |-> "FileCreateFailed",
          exists |-> exists, data |-> data]
    ELSE [ok |-> TRUE, err |-> "None",
          exists |-> TRUE, data |-> <<"{", "}">>]

\* resetConfig (cpp:64-74) on a filesystem that is mounted or not
resetConfigOn(fsMounted, exists, data, fault) ==
    IF ~CanOpenWrite(fsMounted, fault)
    THEN [ok |-> FALSE, err |-> "FileCreateFailed",
          exists |-> exists, data |-> data]
    ELSE [ok |-> TRUE, err |-> "None",
          exists |-> TRUE, data |-> <<"{", "}">>]

\* loadDoc (cpp:127-141)
loadDoc(fault) ==
    LET Parsed(r) ==
            IF ~r.ok
            THEN [ok |-> FALSE, err |-> "JsonParseFailed", doc |-> <<>>]
            ELSE [ok |-> TRUE, err |-> "None", doc |-> r.doc]
    IN  IF ~CanOpenRead(mounted, fileExists, fault)
        THEN [ok |-> FALSE, err |-> "FileOpenFailed", doc |-> <<>>]
        ELSE Parsed(deserializeJson(fileData))

\* saveDoc opening the file for appending instead of truncating it
saveDoc_Append(doc, fault) ==
    IF ~CanOpenWrite(mounted, fault)
    THEN [ok |-> FALSE, err |-> "FileOpenFailed",
          exists |-> fileExists, data |-> fileData]
    ELSE IF fault = "writeZero"
    THEN [ok |-> FALSE, err |-> "FileWriteFailed",
          exists |-> TRUE, data |-> fileData]
    ELSE [ok |-> TRUE, err |-> "None",
          exists |-> TRUE, data |-> fileData \o serializeJson(doc)]

\* saveDoc (cpp:151-165): the open truncates the file before anything is
\* written
saveDoc(doc, fault) ==
    IF ~CanOpenWrite(mounted, fault)
    THEN [ok |-> FALSE, err |-> "FileOpenFailed",
          exists |-> fileExists, data |-> fileData]
    ELSE IF fault = "writeZero"
    THEN [ok |-> FALSE, err |-> "FileWriteFailed",
          exists |-> TRUE, data |-> <<>>]
    ELSE [ok |-> TRUE, err |-> "None",
          exists |-> TRUE, data |-> serializeJson(doc)]

\* ------------------------------------------------------------------------
\* Operations.  Each computes the outcome of one call as a record:
\*   ok, err          the result and lastError
\*   exists, data     the file after the call
\* and the action installs it.
\* ------------------------------------------------------------------------
Unchanged(err) ==
    [ok |-> FALSE, err |-> err, exists |-> fileExists, data |-> fileData]

\* StartTC without the guard of cpp:19-22
StartTCOutcome_NoRunningCheck(mountOk, fault) ==
    LET Created(r) ==
            IF ~r.ok
            THEN [ok |-> FALSE, err |-> "FileCreateFailed", init |-> FALSE,
                  mounted |-> TRUE, exists |-> r.exists, data |-> r.data]
            ELSE [ok |-> TRUE, err |-> "None", init |-> TRUE,
                  mounted |-> TRUE, exists |-> r.exists, data |-> r.data]
    IN  IF ~(mounted \/ mountOk)
        THEN [ok |-> FALSE, err |-> "FSInitFailed", init |-> FALSE,
              mounted |-> FALSE, exists |-> fileExists, data |-> fileData]
        ELSE IF ~fileExists
        THEN Created(resetConfigOn(TRUE, fileExists, fileData, fault))
        ELSE [ok |-> TRUE, err |-> "None", init |-> TRUE,
              mounted |-> TRUE, exists |-> fileExists, data |-> fileData]

\* StartTC that sets the flag although the file could not be created
StartTCOutcome_InitOnCreateFailure(mountOk, fault) ==
    LET Created(r) ==
            IF ~r.ok
            THEN [ok |-> FALSE, err |-> "FileCreateFailed", init |-> TRUE,
                  mounted |-> TRUE, exists |-> r.exists, data |-> r.data]
            ELSE [ok |-> TRUE, err |-> "None", init |-> TRUE,
                  mounted |-> TRUE, exists |-> r.exists, data |-> r.data]
    IN  IF isInitialized
        THEN [ok |-> FALSE, err |-> "FSAlreadyRunning", init |-> isInitialized,
              mounted |-> mounted, exists |-> fileExists, data |-> fileData]
        ELSE IF ~(mounted \/ mountOk)
        THEN [ok |-> FALSE, err |-> "FSInitFailed", init |-> FALSE,
              mounted |-> FALSE, exists |-> fileExists, data |-> fileData]
        ELSE IF ~fileExists
        THEN Created(resetConfigOn(TRUE, fileExists, fileData, fault))
        ELSE [ok |-> TRUE, err |-> "None", init |-> TRUE,
              mounted |-> TRUE, exists |-> fileExists, data |-> fileData]

\* StartTC that writes a new file whether or not one exists
StartTCOutcome_AlwaysReset(mountOk, fault) ==
    LET Created(r) ==
            IF ~r.ok
            THEN [ok |-> FALSE, err |-> "FileCreateFailed", init |-> FALSE,
                  mounted |-> TRUE, exists |-> r.exists, data |-> r.data]
            ELSE [ok |-> TRUE, err |-> "None", init |-> TRUE,
                  mounted |-> TRUE, exists |-> r.exists, data |-> r.data]
    IN  IF isInitialized
        THEN [ok |-> FALSE, err |-> "FSAlreadyRunning", init |-> isInitialized,
              mounted |-> mounted, exists |-> fileExists, data |-> fileData]
        ELSE IF ~(mounted \/ mountOk)
        THEN [ok |-> FALSE, err |-> "FSInitFailed", init |-> FALSE,
              mounted |-> FALSE, exists |-> fileExists, data |-> fileData]
        ELSE Created(resetConfigOn(TRUE, fileExists, fileData, fault))

\* StartTC (cpp:18-36)
StartTCOutcome(mountOk, fault) ==
    LET Created(r) ==
            IF ~r.ok
            THEN [ok |-> FALSE, err |-> "FileCreateFailed", init |-> FALSE,
                  mounted |-> TRUE, exists |-> r.exists, data |-> r.data]
            ELSE [ok |-> TRUE, err |-> "None", init |-> TRUE,
                  mounted |-> TRUE, exists |-> r.exists, data |-> r.data]
    IN  IF isInitialized
        THEN [ok |-> FALSE, err |-> "FSAlreadyRunning", init |-> isInitialized,
              mounted |-> mounted, exists |-> fileExists, data |-> fileData]
        ELSE IF ~(mounted \/ mountOk)
        THEN [ok |-> FALSE, err |-> "FSInitFailed", init |-> FALSE,
              mounted |-> FALSE, exists |-> fileExists, data |-> fileData]
        ELSE IF ~fileExists
        THEN Created(resetConfigOn(TRUE, fileExists, fileData, fault))
        ELSE [ok |-> TRUE, err |-> "None", init |-> TRUE,
              mounted |-> TRUE, exists |-> fileExists, data |-> fileData]

StartTC ==
    \E mountOk \in BOOLEAN, fault \in {"none", "openWrite"} :
        \E r \in {StartTCOutcome(mountOk, fault)} :
            /\ isInitialized' = r.init
            /\ mounted' = r.mounted
            /\ lastError' = r.err
            /\ fileExists' = r.exists
            /\ fileData' = r.data
            /\ maxFileSize' = maxFileSize
            /\ last' = Call("StartTC", <<>>, NullV, NullV, <<>>, 0,
                            IF mounted \/ mountOk THEN fault ELSE "mount",
                            r.ok, NullV)

\* StopTC without the assignment of cpp:52
StopTCOutcome_StaleError ==
    IF ~isInitialized
    THEN [ok |-> FALSE, err |-> "FSNotRunning", init |-> isInitialized,
          mounted |-> mounted]
    ELSE [ok |-> TRUE, err |-> lastError, init |-> FALSE, mounted |-> FALSE]

\* StopTC (cpp:45-54)
StopTCOutcome ==
    IF ~isInitialized
    THEN [ok |-> FALSE, err |-> "FSNotRunning", init |-> isInitialized,
          mounted |-> mounted]
    ELSE [ok |-> TRUE, err |-> "None", init |-> FALSE, mounted |-> FALSE]

StopTC ==
    \E r \in {StopTCOutcome} :
        /\ isInitialized' = r.init
        /\ mounted' = r.mounted
        /\ lastError' = r.err
        /\ UNCHANGED <<maxFileSize, fileExists, fileData>>
        /\ last' = Call("StopTC", <<>>, NullV, NullV, <<>>, 0, "none",
                        r.ok, NullV)

\* resetConfig (cpp:64-74)
resetConfig ==
    \E fault \in {"none", "openWrite"} :
        \E r \in {resetConfigOn(mounted, fileExists, fileData, fault)} :
            /\ lastError' = r.err
            /\ fileExists' = r.exists
            /\ fileData' = r.data
            /\ UNCHANGED <<isInitialized, mounted, maxFileSize>>
            /\ last' = Call("resetConfig", <<>>, NullV, NullV, <<>>, 0,
                            fault, r.ok, NullV)

\* TinyConfigErrorStrings (TinyConfig.h:24-36)
TinyConfigErrorStrings ==
    ("None" :> "No error")
    @@ ("FSInitFailed" :> "Filesystem initialization failed")
    @@ ("FSNotRunning" :> "TinyConfig not running")
    @@ ("FSAlreadyRunning" :> "TinyConfig already running")
    @@ ("FileOpenFailed" :> "Failed to open configuration file")
    @@ ("FileWriteFailed" :> "Failed to write to configuration file")
    @@ ("FileCreateFailed" :> "Failed to create configuration file")
    @@ ("JsonParseFailed" :> "JSON parsing failed")
    @@ ("JsonSerializeFailed" :> "JSON serialization failed")
    @@ ("FileSizeTooSmall" :> "Configuration file size too small")
    @@ ("FileSizeTooLarge" :> "Configuration file size too large")

\* getLastError that clears the code as it returns it
getLastErrorOutcome_Clearing == [err |-> "None", out |-> <<"err", lastError>>]

\* getLastError (cpp:80-82): out is the returned code
getLastErrorOutcome == [err |-> lastError, out |-> <<"err", lastError>>]

getLastError ==
    \E r \in {getLastErrorOutcome} :
        /\ lastError' = r.err
        /\ UNCHANGED <<isInitialized, mounted, maxFileSize, fileExists,
                       fileData>>
        /\ last' = Call("getLastError", <<>>, NullV, NullV, <<>>, 0, "none",
                        TRUE, r.out)

\* getLastErrorString (cpp:88-91): out is the returned text
getLastErrorStringOutcome ==
    [err |-> lastError,
     out |-> <<"text", IF lastError \in DOMAIN TinyConfigErrorStrings
                       THEN TinyConfigErrorStrings[lastError]
                       ELSE "unknown error">>]

getLastErrorString ==
    \E r \in {getLastErrorStringOutcome} :
        /\ lastError' = r.err
        /\ UNCHANGED <<isInitialized, mounted, maxFileSize, fileExists,
                       fileData>>
        /\ last' = Call("getLastErrorString", <<>>, NullV, NullV, <<>>, 0,
                        "none", TRUE, r.out)

\* setMaxFileSize without the lower limit of cpp:104-107
setMaxFileSizeOutcome_NoLowerCheck(maxSize) ==
    IF maxSize > MaxAllowedFileSize
    THEN [ok |-> FALSE, err |-> "FileSizeTooLarge", max |-> maxFileSize]
    ELSE [ok |-> TRUE, err |-> "None", max |-> maxSize]

\* setMaxFileSize (cpp:103-115)
setMaxFileSizeOutcome(maxSize) ==
    IF maxSize < MinFileSize
    THEN [ok |-> FALSE, err |-> "FileSizeTooSmall", max |-> maxFileSize]
    ELSE IF maxSize > MaxAllowedFileSize
    THEN [ok |-> FALSE, err |-> "FileSizeTooLarge", max |-> maxFileSize]
    ELSE [ok |-> TRUE, err |-> "None", max |-> maxSize]

setMaxFileSize ==
    \E maxSize \in SizeInputs :
        \E r \in {setMaxFileSizeOutcome(maxSize)} :
            /\ maxFileSize' = r.max
            /\ lastError' = r.err
            /\ UNCHANGED <<isInitialized, mounted, fileExists, fileData>>
            /\ last' = Call("setMaxFileSize", <<>>, NullV, NullV, <<>>,
                            maxSize, "none", r.ok, NullV)

\* setInternal without the size check of cpp:193-196
setInternal_NoSizeCheck(key, value, fault) ==
    LET Loaded(l) ==
            IF ~l.ok THEN Unchanged(l.err)
            ELSE saveDoc(DocSet(l.doc, key, value), fault)
    IN  IF ~isInitialized THEN Unchanged("FSNotRunning")
        ELSE Loaded(loadDoc(fault))

\* setInternal without the assignment of cpp:190
setInternal_NoAssign(key, value, fault) ==
    LET Assigned(doc) ==
            IF Len(serializeJson(doc)) > maxFileSize
            THEN Unchanged("FileSizeTooLarge")
            ELSE saveDoc(doc, fault)
        Loaded(l) == IF ~l.ok THEN Unchanged(l.err) ELSE Assigned(l.doc)
    IN  IF ~isInitialized THEN Unchanged("FSNotRunning")
        ELSE Loaded(loadDoc(fault))

\* setInternal measuring against the default bound instead of maxFileSize
setInternal_DefaultBound(key, value, fault) ==
    LET Assigned(doc) ==
            IF Len(serializeJson(doc)) > DefaultMaxFileSize
            THEN Unchanged("FileSizeTooLarge")
            ELSE saveDoc(doc, fault)
        Loaded(l) ==
            IF ~l.ok THEN Unchanged(l.err)
            ELSE Assigned(DocSet(l.doc, key, value))
    IN  IF ~isInitialized THEN Unchanged("FSNotRunning")
        ELSE Loaded(loadDoc(fault))

\* setInternal (cpp:180-202)
setInternal(key, value, fault) ==
    LET Assigned(doc) ==
            IF Len(serializeJson(doc)) > maxFileSize
            THEN Unchanged("FileSizeTooLarge")
            ELSE saveDoc(doc, fault)
        Loaded(l) ==
            IF ~l.ok THEN Unchanged(l.err)
            ELSE Assigned(DocSet(l.doc, key, value))
    IN  IF ~isInitialized THEN Unchanged("FSNotRunning")
        ELSE Loaded(loadDoc(fault))

\* set (cpp:210-232)
set ==
    \E key \in Keys, value \in Values, fault \in Faults :
        \E r \in {setInternal(key, value, fault)} :
            /\ lastError' = r.err
            /\ fileExists' = r.exists
            /\ fileData' = r.data
            /\ UNCHANGED <<isInitialized, mounted, maxFileSize>>
            /\ last' = Call("set", key, value, NullV, <<>>, 0, fault,
                            r.ok, NullV)

\* a get without the guard of cpp:243-246
getLoad_NoInitCheck(fault) == loadDoc(fault)

\* the common part of getInt, getFloat and getString: ok is "the document
\* was loaded", doc is the loaded document
getLoad(fault) ==
    IF ~isInitialized
    THEN [ok |-> FALSE, err |-> "FSNotRunning", doc |-> <<>>]
    ELSE loadDoc(fault)

\* getInt with a constant default in place of the caller's fallback
getIntOutcome_ZeroDefault(key, fallback, fault) ==
    LET Loaded(l) ==
            IF ~l.ok THEN [ok |-> FALSE, err |-> l.err, out |-> fallback]
            ELSE [ok |-> TRUE, err |-> "None",
                  out |-> VariantOrInt(l.doc, key, IntV(0))]
    IN  Loaded(getLoad(fault))

\* getInt (cpp:242-253)
getIntOutcome(key, fallback, fault) ==
    LET Loaded(l) ==
            IF ~l.ok THEN [ok |-> FALSE, err |-> l.err, out |-> fallback]
            ELSE [ok |-> TRUE, err |-> "None",
                  out |-> VariantOrInt(l.doc, key, fallback)]
    IN  Loaded(getLoad(fault))

\* getFloat (cpp:263-274)
getFloatOutcome(key, fallback, fault) ==
    LET Loaded(l) ==
            IF ~l.ok THEN [ok |-> FALSE, err |-> l.err, out |-> fallback]
            ELSE [ok |-> TRUE, err |-> "None",
                  out |-> VariantOrFloat(l.doc, key, fallback)]
    IN  Loaded(getLoad(fault))

\* getString (cpp:284-295)
getStringOutcome(key, fallback, fault) ==
    LET Loaded(l) ==
            IF ~l.ok THEN [ok |-> FALSE, err |-> l.err, out |-> fallback]
            ELSE [ok |-> TRUE, err |-> "None",
                  out |-> VariantOrString(l.doc, key, fallback)]
    IN  Loaded(getLoad(fault))

getInt ==
    \E key \in Keys, fallback \in IntFallbacks, fault \in {"none", "openRead"} :
        \E r \in {getIntOutcome(key, fallback, fault)} :
            /\ lastError' = r.err
            /\ UNCHANGED <<isInitialized, mounted, maxFileSize, fileExists,
                           fileData>>
            /\ last' = Call("getInt", key, NullV, fallback, <<>>, 0, fault,
                            r.ok, r.out)

getFloat ==
    \E key \in Keys, fallback \in FloatFallbacks, fault \in {"none", "openRead"} :
        \E r \in {getFloatOutcome(key, fallback, fault)} :
            /\ lastError' = r.err
            /\ UNCHANGED <<isInitialized, mounted, maxFileSize, fileExists,
                           fileData>>
            /\ last' = Call("getFloat", key, NullV, fallback, <<>>, 0, fault,
                            r.ok, r.out)

getString ==
    \E key \in Keys, fallback \in StringFallbacks, fault \in {"none", "openRead"} :
        \E r \in {getStringOutcome(key, fallback, fault)} :
            /\ lastError' = r.err
            /\ UNCHANGED <<isInitialized, mounted, maxFileSize, fileExists,
                           fileData>>
            /\ last' = Call("getString", key, NullV, fallback, <<>>, 0, fault,
                            r.ok, r.out)

\* getAllJson (cpp:305-316): out is the returned document
getAllJsonOutcome(fault) ==
    LET Loaded(l) == [ok |-> l.ok, err |-> l.err, out |-> <<"doc", l.doc>>]
    IN  Loaded(getLoad(fault))

getAllJson ==
    \E fault \in {"none", "openRead"} :
        \E r \in {getAllJsonOutcome(fault)} :
            /\ lastError' = r.err
            /\ UNCHANGED <<isInitialized, mounted, maxFileSize, fileExists,
                           fileData>>
            /\ last' = Call("getAllJson", <<>>, NullV, NullV, <<>>, 0, fault,
                            r.ok, r.out)

\* getAll returning an empty object in place of the serialized document
getAllOutcome_EmptyObject(fallback, fault) ==
    LET Loaded(l) ==
            IF ~l.ok THEN [ok |-> FALSE, err |-> l.err, out |-> fallback]
            ELSE IF fault = "serializeZero"
            THEN [ok |-> FALSE, err |-> "JsonSerializeFailed",
                  out |-> fallback]
            ELSE [ok |-> TRUE, err |-> "None", out |-> StrV(<<"{", "}">>)]
    IN  Loaded(getLoad(fault))

\* getAll (cpp:327-343): out is the returned string
getAllOutcome(fallback, fault) ==
    LET Loaded(l) ==
            IF ~l.ok THEN [ok |-> FALSE, err |-> l.err, out |-> fallback]
            ELSE IF fault = "serializeZero"
            THEN [ok |-> FALSE, err |-> "JsonSerializeFailed",
                  out |-> fallback]
            ELSE [ok |-> TRUE, err |-> "None",
                  out |-> StrV(serializeJson(l.doc))]
    IN  Loaded(getLoad(fault))

getAll ==
    \E fallback \in {StrV(<<"{", "}">>)},
       fault \in {"none", "openRead", "serializeZero"} :
        \E r \in {getAllOutcome(fallback, fault)} :
            /\ lastError' = r.err
            /\ UNCHANGED <<isInitialized, mounted, maxFileSize, fileExists,
                           fileData>>
            /\ last' = Call("getAll", <<>>, NullV, fallback, <<>>, 0, fault,
                            r.ok, r.out)

\* deleteKey without the containsKey test of cpp:364-367
deleteKeyOutcome_NoContainsCheck(key, fault) ==
    LET Loaded(l) ==
            IF ~l.ok THEN Unchanged(l.err)
            ELSE saveDoc(DocRemove(l.doc, key), fault)
    IN  IF ~isInitialized THEN Unchanged("FSNotRunning")
        ELSE Loaded(loadDoc(fault))

\* deleteKey (cpp:355-374)
deleteKeyOutcome(key, fault) ==
    LET Loaded(l) ==
            IF ~l.ok THEN Unchanged(l.err)
            ELSE IF ~containsKey(l.doc, key) THEN Unchanged("None")
            ELSE saveDoc(DocRemove(l.doc, key), fault)
    IN  IF ~isInitialized THEN Unchanged("FSNotRunning")
        ELSE Loaded(loadDoc(fault))

deleteKey ==
    \E key \in Keys, fault \in Faults :
        \E r \in {deleteKeyOutcome(key, fault)} :
            /\ lastError' = r.err
            /\ fileExists' = r.exists
            /\ fileData' = r.data
            /\ UNCHANGED <<isInitialized, mounted, maxFileSize>>
            /\ last' = Call("deleteKey", key, NullV, NullV, <<>>, 0, fault,
                            r.ok, NullV)

\* the loop of deleteKeys (cpp:401-407)
RECURSIVE RemoveAll(_, _)
RemoveAll(doc, keys) ==
    IF keys = <<>> THEN doc
    ELSE RemoveAll(IF containsKey(doc, Head(keys))
                   THEN DocRemove(doc, Head(keys)) ELSE doc,
                   Tail(keys))

\* deleteKeys removing only the first listed key that is present
deleteKeysOutcome_FirstOnly(keys, fault) ==
    LET First(doc) ==
            CHOOSE i \in 1..Len(keys) :
                /\ containsKey(doc, keys[i])
                /\ \A j \in 1..(i - 1) : ~containsKey(doc, keys[j])
        Loaded(l) ==
            IF ~l.ok THEN Unchanged(l.err)
            ELSE IF ~(\E i \in 1..Len(keys) : containsKey(l.doc, keys[i]))
            THEN Unchanged("None")
            ELSE saveDoc(DocRemove(l.doc, keys[First(l.doc)]), fault)
    IN  IF ~isInitialized THEN Unchanged("FSNotRunning")
        ELSE Loaded(loadDoc(fault))

\* deleteKeys (cpp:382-415)
deleteKeysOutcome(keys, fault) ==
    LET Loaded(l) ==
            IF ~l.ok THEN Unchanged(l.err)
            ELSE IF ~(\E i \in 1..Len(keys) : containsKey(l.doc, keys[i]))
            THEN Unchanged("None")
            ELSE saveDoc(RemoveAll(l.doc, keys), fault)
    IN  IF ~isInitialized THEN Unchanged("FSNotRunning")
        ELSE Loaded(loadDoc(fault))

deleteKeys ==
    \E keys \in KeyLists(MaxKeyList), fault \in Faults :
        \E r \in {deleteKeysOutcome(keys, fault)} :
            /\ lastError' = r.err
            /\ fileExists' = r.exists
            /\ fileData' = r.data
            /\ UNCHANGED <<isInitialized, mounted, maxFileSize>>
            /\ last' = Call("deleteKeys", <<>>, NullV, NullV, keys, 0, fault,
                            r.ok, NullV)

Next ==
    \/ StartTC
    \/ StopTC
    \/ resetConfig
    \/ getLastError
    \/ getLastErrorString
    \/ setMaxFileSize
    \/ set
    \/ getInt
    \/ getFloat
    \/ getString
    \/ getAllJson
    \/ getAll
    \/ deleteKey
    \/ deleteKeys

Spec == Init /\ [][Next]_vars

\* ------------------------------------------------------------------------
\* Vocabulary of the properties
\* ------------------------------------------------------------------------
Getters == {"getInt", "getFloat", "getString"}
Readers == Getters \cup {"getAll", "getAllJson"}
Reporters == {"getLastError", "getLastErrorString"}
Accessors == Getters \cup {"set", "getAll", "getAllJson", "deleteKey",
                           "deleteKeys"}

\* the document in the file before the last call, and the one in it now
PreDoc == deserializeJson(last.pre.data)
CurDoc == deserializeJson(fileData)

\* the last call could read the file: the store was running and no open
\* failed
PreLoadable ==
    /\ last.pre.init
    /\ last.pre.exists
    /\ last.fault # "openRead"
    /\ PreDoc.ok

\* what a get of each type returns on a file with the given content
ReadInt(data, key, fb) ==
    LET r == deserializeJson(data)
    IN  IF r.ok THEN VariantOrInt(r.doc, key, fb) ELSE fb

ReadFloat(data, key, fb) ==
    LET r == deserializeJson(data)
    IN  IF r.ok THEN VariantOrFloat(r.doc, key, fb) ELSE fb

ReadString(data, key, fb) ==
    LET r == deserializeJson(data)
    IN  IF r.ok THEN VariantOrString(r.doc, key, fb) ELSE fb

SameReads(data1, data2) ==
    \A k \in Keys :
        /\ \A fb \in IntFallbacks : ReadInt(data1, k, fb) = ReadInt(data2, k, fb)
        /\ \A fb \in FloatFallbacks :
               ReadFloat(data1, k, fb) = ReadFloat(data2, k, fb)
        /\ \A fb \in StringFallbacks :
               ReadString(data1, k, fb) = ReadString(data2, k, fb)

FileUntouched == fileData = last.pre.data /\ fileExists = last.pre.exists

\* ------------------------------------------------------------------------
\* C1: on an initialized store whose document loads, a set that would make
\* the serialized document longer than maxFileSize returns false with
\* FileSizeTooLarge and leaves the file as it was, so every get reads what
\* it read before.
\* ------------------------------------------------------------------------
C1_Oversize ==
    /\ last.op = "set"
    /\ PreLoadable
    /\ Len(serializeJson(DocSet(PreDoc.doc, last.key, last.val)))
          > last.pre.max

C1_SizeEnforced ==
    C1_Oversize =>
        /\ ~last.ok
        /\ lastError = "FileSizeTooLarge"
        /\ FileUntouched
        /\ SameReads(fileData, last.pre.data)

\* an oversize set was rejected on a store that already holds a key
C1_Witness ==
    /\ C1_Oversize
    /\ PreDoc.doc # <<>>
    /\ lastError = "FileSizeTooLarge"

\* ------------------------------------------------------------------------
\* C2: round trip.  A successful set(k, v) followed immediately by the get
\* of v's type for k, with no filesystem failure during the get, returns v.
\* ------------------------------------------------------------------------
GetterOf(v) ==
    CASE v[1] = "int" -> "getInt"
      [] v[1] = "float" -> "getFloat"
      [] v[1] = "str" -> "getString"
      [] OTHER -> "none"

\* this step is the get of k, of v's type, right after a successful set(k, v)
C2_GetAfterSet ==
    /\ last.op = "set"
    /\ last.ok
    /\ last'.op = GetterOf(last.val)
    /\ last'.key = last.key
    /\ last'.fault = "none"

Distance(x, y) == IF x >= y THEN x - y ELSE y - x

C3_MissingKeyGet ==
    /\ last.op \in Getters
    /\ PreLoadable
    /\ ~containsKey(PreDoc.doc, last.key)

C3_MissingKeyFallback ==
    C3_MissingKeyGet => last.out = last.fb /\ lastError = "None" /\ last.ok

\* a get of a missing key on a document that holds another key
C3_Witness ==
    /\ C3_MissingKeyGet
    /\ PreDoc.doc # <<>>
    /\ last.out = last.fb

\* ------------------------------------------------------------------------
\* C4: delete semantics.  deleteKey of an absent key returns false with
\* lastError None and leaves the file unchanged; deleteKey of a present key
\* returns true only when the key was removed and the document saved, and
\* then a get of that key returns its fallback while every other key keeps
\* its value.
\* ------------------------------------------------------------------------
C4_AbsentKey ==
    (/\ last.op = "deleteKey"
     /\ PreLoadable
     /\ ~containsKey(PreDoc.doc, last.key))
    => ~last.ok /\ lastError = "None" /\ FileUntouched

C4_Deleted ==
    /\ last.op = "deleteKey"
    /\ last.ok

C4_NoFailure ==
    (/\ last.op = "deleteKey"
     /\ PreLoadable
     /\ containsKey(PreDoc.doc, last.key)
     /\ last.fault = "none")
    => last.ok /\ lastError = "None"

C4_PresentKey ==
    C4_Deleted =>
        /\ PreLoadable
        /\ containsKey(PreDoc.doc, last.key)
        /\ fileExists
        /\ fileData = serializeJson(DocRemove(PreDoc.doc, last.key))
        /\ CurDoc.ok
        /\ ~containsKey(CurDoc.doc, last.key)
        /\ \A k \in Keys \ {last.key} :
               DocGet(CurDoc.doc, k) = DocGet(PreDoc.doc, k)

C4_GetAfterDelete ==
    (/\ C4_Deleted
     /\ last'.op \in Getters
     /\ last'.key = last.key)
    => last'.out = last'.fb

C4_DeleteSemantics ==
    /\ [](C4_AbsentKey /\ C4_NoFailure /\ C4_PresentKey)
    /\ [][C4_GetAfterDelete]_vars

\* a key was deleted from a document that keeps another key
C4_Witness ==
    /\ C4_Deleted
    /\ CurDoc.ok
    /\ CurDoc.doc # <<>>

\* ------------------------------------------------------------------------
\* C5: reset.  As stated: after resetConfig the file holds {}.
\* ------------------------------------------------------------------------
C5_ResetAlways ==
    last.op = "resetConfig" => fileExists /\ fileData = <<"{", "}">>

\* C5 as amended: a resetConfig that returns true leaves the file holding
\* exactly {}, so that every key is absent and every get returns its
\* fallback; a resetConfig that returns false leaves the file as it was;
\* and a resetConfig right after a successful one changes nothing in the
\* file.
C5_ResetDone ==
    (last.op = "resetConfig" /\ last.ok) =>
        /\ fileExists
        /\ fileData = <<"{", "}">>
        /\ CurDoc.ok
        /\ CurDoc.doc = <<>>
        /\ lastError = "None"
        /\ \A k \in Keys :
              /\ \A fb \in IntFallbacks : ReadInt(fileData, k, fb) = fb
              /\ \A fb \in FloatFallbacks : ReadFloat(fileData, k, fb) = fb
              /\ \A fb \in StringFallbacks : ReadString(fileData, k, fb) = fb

C5_ResetFailed ==
    (last.op = "resetConfig" /\ ~last.ok) =>
        FileUntouched /\ lastError = "FileCreateFailed"

C5_ResetTwice ==
    (/\ last.op = "resetConfig"
     /\ last.ok
     /\ last'.op = "resetConfig")
    => fileData' = fileData /\ fileExists' = fileExists

C5_Reset ==
    /\ [](C5_ResetDone /\ C5_ResetFailed)
    /\ [][C5_ResetTwice]_vars

\* a successful reset emptied a document that held a key
C5_Witness ==
    /\ last.op = "resetConfig"
    /\ last.ok
    /\ PreDoc.ok
    /\ PreDoc.doc # <<>>

\* ------------------------------------------------------------------------
\* C6: lifecycle guard.  While the store is not initialized every accessor
\* fails with FSNotRunning, a get returns its fallback, and the file is not
\* modified.
\* ------------------------------------------------------------------------
C6_AccessorWhileStopped ==
    /\ last.op \in Accessors
    /\ ~last.pre.init

C7_FailedSetUntouched ==
    (last.op = "set" /\ ~last.ok) => FileUntouched

\* ------------------------------------------------------------------------
\* C8: lastError discipline.  An operation that succeeds leaves lastError
\* None; an operation that fails leaves the code of that failure, whatever
\* lastError was before; a delete that finds nothing to delete is not a
\* failure and leaves None.
\* ------------------------------------------------------------------------
\* the last call was a delete on a loaded document holding none of its keys
NothingToDelete ==
    /\ PreLoadable
    /\ \/ last.op = "deleteKey" /\ ~containsKey(PreDoc.doc, last.key)
       \/ /\ last.op = "deleteKeys"
          /\ \A i \in 1..Len(last.keys) : ~containsKey(PreDoc.doc, last.keys[i])

\* the code of the failure of the last call, from its arguments, the state
\* it started in and what the filesystem did
FailureCode ==
    CASE last.op = "StartTC" ->
            IF last.pre.init THEN "FSAlreadyRunning"
            ELSE IF last.fault = "mount" THEN "FSInitFailed"
            ELSE "FileCreateFailed"
      [] last.op = "StopTC" -> "FSNotRunning"
      [] last.op = "resetConfig" -> "FileCreateFailed"
      [] last.op = "setMaxFileSize" ->
            IF last.size < MinFileSize THEN "FileSizeTooSmall"
            ELSE "FileSizeTooLarge"
      [] OTHER ->
            IF ~last.pre.init THEN "FSNotRunning"
            ELSE IF ~last.pre.exists \/ last.fault = "openRead"
            THEN "FileOpenFailed"
            ELSE IF ~PreDoc.ok THEN "JsonParseFailed"
            ELSE IF last.op = "getAll" THEN "JsonSerializeFailed"
            ELSE IF last.op = "set" /\ C1_Oversize THEN "FileSizeTooLarge"
            ELSE IF last.fault = "openWrite" THEN "FileOpenFailed"
            ELSE "FileWriteFailed"

C8_LastErrorDiscipline ==
    last.op \notin Reporters \cup {"new"} =>
        /\ last.ok => lastError = "None"
        /\ NothingToDelete => (~last.ok /\ lastError = "None")
        /\ (~last.ok /\ ~NothingToDelete) =>
              (lastError # "None" /\ lastError = FailureCode)

\* a set failed on a file that an earlier failed write left unreadable
C8_Witness ==
    /\ last.op = "set"
    /\ ~last.ok
    /\ lastError = "JsonParseFailed"
    /\ FileUntouched

\* ------------------------------------------------------------------------
\* C9: every successful set leaves on disk a valid JSON object, no longer
\* than the maxFileSize of that call, which is the previous document with
\* key set to value.
\* ------------------------------------------------------------------------
C9_SuccessfulSet ==
    (last.op = "set" /\ last.ok) =>
        /\ PreLoadable
        /\ fileExists
        /\ CurDoc.ok
        /\ Len(fileData) <= last.pre.max
        /\ maxFileSize = last.pre.max
        /\ fileData = serializeJson(DocSet(PreDoc.doc, last.key, last.val))
        /\ DocKeys(CurDoc.doc) = DocKeys(PreDoc.doc) \cup {last.key}
        /\ DocGet(CurDoc.doc, last.key)
              = ParseValue(SerValue(last.val), 1).val
        /\ \A k \in Keys \ {last.key} :
               DocGet(CurDoc.doc, k) = DocGet(PreDoc.doc, k)

\* a set succeeded with a document exactly as long as the lowered bound
C9_Witness ==
    /\ last.op = "set"
    /\ last.ok
    /\ Len(fileData) = MinFileSize
    /\ maxFileSize = MinFileSize

\* ------------------------------------------------------------------------
\* C10: lifecycle.  isInitialized starts false and changes only by a
\* successful StartTC (false to true) and a successful StopTC (true to
\* false); StartTC on a running store fails with FSAlreadyRunning and
\* changes neither the flag nor the file; StopTC on a store that is not
\* running fails with FSNotRunning; StopTC on a running store succeeds.
\* Successful starts and stops therefore alternate.
\* ------------------------------------------------------------------------
C10_FlagStep ==
    /\ isInitialized' # isInitialized =>
          /\ last'.ok
          /\ \/ last'.op = "StartTC" /\ ~isInitialized /\ isInitialized'
             \/ last'.op = "StopTC" /\ isInitialized /\ ~isInitialized'
    /\ (last'.op = "StartTC" /\ last'.ok) => (~isInitialized /\ isInitialized')
    /\ (last'.op = "StopTC" /\ last'.ok) => (isInitialized /\ ~isInitialized')

C10_Calls ==
    /\ (last.op = "StartTC" /\ last.pre.init) =>
          /\ ~last.ok
          /\ lastError = "FSAlreadyRunning"
          /\ isInitialized
          /\ FileUntouched
    /\ (last.op = "StopTC" /\ ~last.pre.init) =>
          /\ ~last.ok
          /\ lastError = "FSNotRunning"
          /\ ~isInitialized
    /\ (last.op = "StopTC" /\ last.pre.init) =>
          /\ last.ok
          /\ lastError = "None"
          /\ ~isInitialized

C10_Lifecycle ==
    /\ ~isInitialized
    /\ []C10_Calls
    /\ [][C10_FlagStep]_vars

\* a start succeeded on a store that had been started and stopped before
C10_Witness ==
    /\ last.op = "StartTC"
    /\ last.ok
    /\ last.pre.exists
    /\ isInitialized

\* ------------------------------------------------------------------------
\* C11: StartTC on a store that is not running.  A failed mount gives false
\* with FSInitFailed; a missing file is created holding {}, and when that
\* fails the call gives false with FileCreateFailed; after either failure
\* the store is still not initialized.  The call returns true, with the flag
\* set and lastError None, exactly when the mount succeeded and the file
\* exists or was created.
\* ------------------------------------------------------------------------
C11_Start ==
    /\ last.op = "StartTC"
    /\ ~last.pre.init

C11_StartContract ==
    C11_Start =>
        /\ last.fault = "mount" =>
              /\ ~last.ok
              /\ lastError = "FSInitFailed"
              /\ FileUntouched
        /\ (last.fault = "none" /\ ~last.pre.exists) =>
              /\ last.ok
              /\ fileExists
              /\ fileData = <<"{", "}">>
        /\ (last.fault = "openWrite" /\ ~last.pre.exists) =>
              /\ ~last.ok
              /\ lastError = "FileCreateFailed"
              /\ FileUntouched
        /\ (last.fault # "mount" /\ last.pre.exists) =>
              /\ last.ok
              /\ FileUntouched
        /\ last.ok <=> (last.fault # "mount" /\ fileExists)
        /\ last.ok => (isInitialized /\ lastError = "None")
        /\ ~last.ok => ~isInitialized

\* a start mounted the filesystem and then failed to create the file
C11_Witness ==
    /\ C11_Start
    /\ ~last.ok
    /\ lastError = "FileCreateFailed"
    /\ ~fileExists
    /\ ~isInitialized

\* ------------------------------------------------------------------------
\* C12: setMaxFileSize(n) returns true and sets the bound to n exactly when
\* 9 <= n <= 4096; below 9 it returns false with FileSizeTooSmall, above
\* 4096 false with FileSizeTooLarge, and the bound stays what it was.  So
\* maxFileSize is in 9..4096 in every reachable state.
\* ------------------------------------------------------------------------
C12_Call ==
    last.op = "setMaxFileSize" =>
        /\ last.ok <=> (last.size \in MinFileSize..MaxAllowedFileSize)
        /\ last.ok => (maxFileSize = last.size /\ lastError = "None")
        /\ last.size < MinFileSize =>
              (lastError = "FileSizeTooSmall" /\ maxFileSize = last.pre.max)
        /\ last.size > MaxAllowedFileSize =>
              (lastError = "FileSizeTooLarge" /\ maxFileSize = last.pre.max)

C12_BoundInRange ==
    /\ C12_Call
    /\ maxFileSize \in MinFileSize..MaxAllowedFileSize

\* a size below the limit was rejected and the bound set earlier was kept
C12_Witness ==
    /\ last.op = "setMaxFileSize"
    /\ ~last.ok
    /\ last.size < MinFileSize
    /\ maxFileSize = MaxAllowedFileSize

\* ------------------------------------------------------------------------
\* C13: setMaxFileSize never changes the file, not even when the new bound
\* is below the file's length, and the bound it sets is the one the next set
\* is measured against: a set that the old bound rejected is accepted once
\* the bound was raised to its document's length or more, and a set that
\* the old bound accepted is rejected with FileSizeTooLarge once the bound
\* was lowered below its document's length.
\* ------------------------------------------------------------------------
C13_FileKept ==
    last.op = "setMaxFileSize" => FileUntouched

\* the length of the document that set(key, value) would write now
C13_Needed(key, value) == Len(serializeJson(DocSet(CurDoc.doc, key, value)))

\* this step is a set, with no filesystem failure, on a running store whose
\* document loads, right after a successful setMaxFileSize
C13_SetAfterResize ==
    /\ last.op = "setMaxFileSize"
    /\ last.ok
    /\ isInitialized
    /\ fileExists
    /\ CurDoc.ok
    /\ last'.op = "set"
    /\ last'.fault = "none"

\* with needed the length of that set's document, old the bound before
\* the setMaxFileSize and new the bound it set
C13_Decided(needed, old, new) ==
    /\ last'.ok <=> (needed <= new)
    /\ (needed > old /\ needed <= new) => (last'.ok /\ lastError' = "None")
    /\ (needed <= old /\ needed > new) =>
          /\ ~last'.ok
          /\ lastError' = "FileSizeTooLarge"
          /\ fileData' = fileData

C13_NextSetUsesBound ==
    C13_SetAfterResize =>
        C13_Decided(C13_Needed(last'.key, last'.val), last.pre.max, last.size)

C13_BoundApplies ==
    /\ []C13_FileKept
    /\ [][C13_NextSetUsesBound]_vars

\* a set was rejected against a bound that had been lowered below the
\* length of the file, and the file is still what it was
C13_Witness ==
    /\ last.op = "set"
    /\ ~last.ok
    /\ lastError = "FileSizeTooLarge"
    /\ Len(fileData) > maxFileSize
    /\ CurDoc.ok
    /\ FileUntouched

\* ------------------------------------------------------------------------
\* C14: every document written to the file by set, deleteKey or deleteKeys
\* is, serialized, no longer than the maxFileSize of that moment, also
\* after setMaxFileSize lowered the bound.
\* ------------------------------------------------------------------------
C14_WritesWithinBound ==
    (last.op \in {"set", "deleteKey", "deleteKeys"} /\ last.ok) =>
        Len(fileData) <= last.pre.max

\* ------------------------------------------------------------------------
\* C15: deleteKeys on an initialized store whose document loads removes
\* every listed key that is present and saves once, leaving every other
\* member as it was; it returns true only when a listed key was present
\* (and does so whenever the save does not fail); when no listed key is
\* present, the empty list included, it returns false with lastError None
\* and leaves the file alone.  The document it writes is the one that
\* deleteKey, called once per listed key, arrives at.
\* ------------------------------------------------------------------------
C15_Call ==
    /\ last.op = "deleteKeys"
    /\ PreLoadable

C15_Listed == {last.keys[i] : i \in 1..Len(last.keys)}

C15_AnyPresent == \E k \in C15_Listed : containsKey(PreDoc.doc, k)

\* the document before the call, without its listed members
C15_Kept == SelectSeq(PreDoc.doc, LAMBDA m : m[1] \notin C15_Listed)

\* the document after deleteKey has been called for each key in turn
RECURSIVE C15_DeleteEach(_, _)
C15_DeleteEach(doc, keys) ==
    IF keys = <<>> THEN doc
    ELSE C15_DeleteEach(DocRemove(doc, Head(keys)), Tail(keys))

C15_DeleteKeys ==
    C15_Call =>
        /\ ~C15_AnyPresent =>
              /\ ~last.ok
              /\ lastError = "None"
              /\ FileUntouched
        /\ (C15_AnyPresent /\ last.fault = "none") =>
              (last.ok /\ lastError = "None")
        /\ last.ok =>
              /\ C15_AnyPresent
              /\ fileData = serializeJson(C15_Kept)
              /\ CurDoc.ok
              /\ CurDoc.doc = C15_Kept
              /\ C15_Kept = C15_DeleteEach(PreDoc.doc, last.keys)

\* one deleteKeys call removed two keys
C15_Witness ==
    /\ C15_Call
    /\ last.ok
    /\ Len(PreDoc.doc) = 2
    /\ Len(last.keys) = 2
    /\ CurDoc.doc = <<>>

\* ------------------------------------------------------------------------
\* C16: a typed get of a key whose stored value does not convert to the
\* requested type returns the fallback with lastError None, as for an
\* absent key; and when the document cannot be loaded the get returns the
\* fallback and lastError is the load's error, FileOpenFailed when the file
\* cannot be opened and JsonParseFailed when its content is malformed.
\* ------------------------------------------------------------------------
\* a value of this kind can be read by this getter
C16_Convertible(op, v) ==
    \/ op = "getInt" /\ v[1] = "int"
    \/ op = "getFloat" /\ v[1] \in {"int", "float"}
    \/ op = "getString" /\ v[1] = "str"

C16_WrongType ==
    /\ last.op \in Getters
    /\ PreLoadable
    /\ containsKey(PreDoc.doc, last.key)
    /\ ~C16_Convertible(last.op, DocGet(PreDoc.doc, last.key))

C16_LoadFailed ==
    /\ last.op \in Getters
    /\ last.pre.init
    /\ ~PreLoadable

C16_GetFallback ==
    /\ C16_WrongType =>
          /\ last.out = last.fb
          /\ lastError = "None"
    /\ C16_LoadFailed =>
          /\ last.out = last.fb
          /\ lastError = IF ~last.pre.exists \/ last.fault = "openRead"
                         THEN "FileOpenFailed"
                         ELSE "JsonParseFailed"

\* getString of a key that holds an integer returned the fallback
C16_Witness ==
    /\ C16_WrongType
    /\ last.op = "getString"
    /\ DocGet(PreDoc.doc, last.key)[1] = "int"
    /\ last.out = last.fb
    /\ lastError = "None"

\* ------------------------------------------------------------------------
\* C17: a successful set(k, v) replaces whatever k held, of whatever type:
\* the document has exactly one member for k, holding v (as its text reads
\* back: exactly for an int and a string), and every other key has the
\* value it had before the call.
\* ------------------------------------------------------------------------
C17_Set ==
    /\ last.op = "set"
    /\ last.ok

\* the positions of the members of doc that have this key
C17_Entries(doc, key) == {i \in 1..Len(doc) : doc[i][1] = key}

C17_SetOverwrites ==
    C17_Set =>
        /\ CurDoc.ok
        /\ Cardinality(C17_Entries(CurDoc.doc, last.key)) = 1
        /\ SerValue(DocGet(CurDoc.doc, last.key)) = SerValue(last.val)
        /\ last.val[1] \in {"int", "str"} =>
              DocGet(CurDoc.doc, last.key) = last.val
        /\ DocKeys(CurDoc.doc) = DocKeys(PreDoc.doc) \cup {last.key}
        /\ \A k \in DocKeys(PreDoc.doc) \ {last.key} :
              /\ Cardinality(C17_Entries(CurDoc.doc, k)) = 1
              /\ DocGet(CurDoc.doc, k) = DocGet(PreDoc.doc, k)

\* a set stored an integer over a string, beside another key
C17_Witness ==
    /\ C17_Set
    /\ DocGet(PreDoc.doc, last.key)[1] = "str"
    /\ last.val[1] = "int"
    /\ Len(CurDoc.doc) = 2

\* ------------------------------------------------------------------------
\* C18: on a running store whose document loads, getAll returns the text of
\* a JSON object with exactly the keys that are stored and their values,
\* and getAllJson returns a document with the same keys and values; right
\* after a successful set(k, v) that is the previous document with k set to
\* v.  On a failure (not initialized, load failure, empty serialization)
\* getAll returns the fallback, and getAllJson returns an empty document
\* when the store is not initialized or the load fails.
\* ------------------------------------------------------------------------
C18_Loaded ==
    /\ last.op \in {"getAll", "getAllJson"}
    /\ PreLoadable

C18_Stored ==
    C18_Loaded =>
        /\ (last.op = "getAll" /\ last.fault = "none") =>
              /\ last.out[1] = "str"
              /\ deserializeJson(last.out[2]).ok
              /\ deserializeJson(last.out[2]).doc = PreDoc.doc
              /\ lastError = "None"
        /\ last.op = "getAllJson" =>
              /\ last.out = <<"doc", PreDoc.doc>>
              /\ lastError = "None"

C18_Failed ==
    /\ (last.op = "getAll" /\ (~PreLoadable \/ last.fault # "none")) =>
          (~last.ok /\ last.out = last.fb)
    /\ (last.op = "getAllJson" /\ ~PreLoadable) =>
          (~last.ok /\ last.out = <<"doc", <<>>>>)

\* this step is a getAll or getAllJson, with no filesystem failure, right
\* after a successful set
C18_AfterSet ==
    /\ last.op = "set"
    /\ last.ok
    /\ last'.op \in {"getAll", "getAllJson"}
    /\ last'.fault = "none"

\* expected is the document the set assigned to
C18_Returned(expected) ==
    /\ last'.op = "getAll" => last'.out = StrV(serializeJson(expected))
    /\ last'.op = "getAllJson" =>
          /\ last'.out[1] = "doc"
          /\ DocKeys(last'.out[2]) = DocKeys(expected)
          /\ \A k \in DocKeys(expected) :
                 SerValue(DocGet(last'.out[2], k))
                    = SerValue(DocGet(expected, k))

C18_LatestValues ==
    C18_AfterSet => C18_Returned(DocSet(PreDoc.doc, last.key, last.val))

C18_GetAll ==
    /\ [](C18_Stored /\ C18_Failed)
    /\ [][C18_LatestValues]_vars

\* getAll returned the text of a document of two keys
C18_Witness ==
    /\ C18_Loaded
    /\ last.op = "getAll"
    /\ last.ok
    /\ Len(PreDoc.doc) = 2
    /\ last.out = StrV(fileData)

\* ------------------------------------------------------------------------
\* C19: resetConfig does not look at the initialized flag.  It returns true
\* exactly when the file can be opened for writing, fails only with
\* FileCreateFailed, never with FSNotRunning, and changes neither the flag
\* nor maxFileSize.
\* ------------------------------------------------------------------------
C19_ResetUnguarded ==
    last.op = "resetConfig" =>
        /\ last.ok <=> CanOpenWrite(mounted, last.fault)
        /\ last.ok => lastError = "None"
        /\ ~last.ok => lastError = "FileCreateFailed"
        /\ lastError # "FSNotRunning"
        /\ isInitialized = last.pre.init
        /\ maxFileSize = last.pre.max

\* resetConfig wrote the file of a store that is not initialized
C19_Witness ==
    /\ last.op = "resetConfig"
    /\ last.ok
    /\ ~isInitialized
    /\ fileData = <<"{", "}">>

\* ------------------------------------------------------------------------
\* C20: in every reachable state the filesystem is mounted exactly when the
\* store is initialized.
\* ------------------------------------------------------------------------
C20_MountedIffInitialized == mounted <=> isInitialized

\* ------------------------------------------------------------------------
\* C21: reads have no effect on what is stored.  getInt, getFloat,
\* getString, getAll and getAllJson change neither the file nor the
\* initialized flag nor maxFileSize; getLastError and getLastErrorString
\* change nothing, lastError included, and return the code and its text.
\* A get returns what the file holds at the call, so the same get repeated
\* right away, the filesystem behaving the same, returns the same value.
\* ------------------------------------------------------------------------
C21_Frame ==
    last'.op \in Readers \cup Reporters =>
        /\ fileData' = fileData
        /\ fileExists' = fileExists
        /\ isInitialized' = isInitialized
        /\ mounted' = mounted
        /\ maxFileSize' = maxFileSize

C21_Report ==
    /\ last'.op \in Reporters => lastError' = lastError
    /\ last'.op = "getLastError" => last'.out = <<"err", lastError>>
    /\ last'.op = "getLastErrorString" =>
          last'.out = <<"text", TinyConfigErrorStrings[lastError]>>

\* this step repeats the get before it
C21_Repeated ==
    /\ last.op \in Getters
    /\ last'.op = last.op
    /\ last'.key = last.key
    /\ last'.fb = last.fb
    /\ last'.fault = last.fault

C21_SameGet ==
    C21_Repeated => (last'.out = last.out /\ lastError' = lastError)

\* what the last get returns is read from the file as it is
C21_FromFile ==
    (last.op \in Getters /\ last.pre.init /\ last.fault = "none") =>
        /\ last.op = "getInt" =>
              last.out = ReadInt(fileData, last.key, last.fb)
        /\ last.op = "getFloat" =>
              last.out = ReadFloat(fileData, last.key, last.fb)
        /\ last.op = "getString" =>
              last.out = ReadString(fileData, last.key, last.fb)

C21_ReadsOnly ==
    /\ []C21_FromFile
    /\ [][C21_Frame /\ C21_Report /\ C21_SameGet]_vars

\* a get returned a stored value and left the file, the flag and a lowered
\* bound as they were
C21_Witness ==
    /\ last.op \in Getters
    /\ last.ok
    /\ last.out # last.fb
    /\ FileUntouched
    /\ isInitialized = last.pre.init
    /\ maxFileSize = MinFileSize
    /\ lastError = "None"

\* ------------------------------------------------------------------------
\* C22: persistence across a restart.  StopTC does not modify the file and
\* StartTC leaves an existing file as it is, writing {} only when there is
\* no file; so the file after a successful stop and a successful start is
\* the file before the stop, and a get after the restart returns what the
\* file holds for its key: the value stored by the last successful set.
\* ------------------------------------------------------------------------
C22_StopKeeps ==
    last.op = "StopTC" => FileUntouched

C22_StartKeeps ==
    last.op = "StartTC" =>
        /\ last.pre.exists => FileUntouched
        /\ ~FileUntouched =>
              /\ ~last.pre.exists
              /\ fileExists
              /\ fileData = <<"{", "}">>

\* this step is a successful start right after a successful stop
C22_Restarted ==
    /\ last.op = "StopTC"
    /\ last.ok
    /\ last'.op = "StartTC"
    /\ last'.ok

\* the file is then the one from before the stop
C22_RestartKeeps ==
    C22_Restarted =>
        /\ fileExists'
        /\ fileData' = last.pre.data
        /\ isInitialized'

\* this step is a get, with no filesystem failure, right after a start
\* that succeeded on an existing file
C22_GetAfterStart ==
    /\ last.op = "StartTC"
    /\ last.ok
    /\ last.pre.exists
    /\ last'.op \in Getters
    /\ last'.fault = "none"

\* it returns what the file from before the start holds for the key
C22_StillThere ==
    C22_GetAfterStart =>
        /\ last'.op = "getInt" =>
              last'.out = ReadInt(last.pre.data, last'.key, last'.fb)
        /\ last'.op = "getFloat" =>
              last'.out = ReadFloat(last.pre.data, last'.key, last'.fb)
        /\ last'.op = "getString" =>
              last'.out = ReadString(last.pre.data, last'.key, last'.fb)

C22_Persistence ==
    /\ [](C22_StopKeeps /\ C22_StartKeeps)
    /\ [][C22_RestartKeeps /\ C22_StillThere]_vars

\* a start on a stopped store found the file with a stored key in it and
\* left it
C22_Witness ==
    /\ last.op = "StartTC"
    /\ last.ok
    /\ ~last.pre.init
    /\ last.pre.exists
    /\ CurDoc.ok
    /\ CurDoc.doc # <<>>
    /\ FileUntouched

====
